---- MODULE Spec2Model ----
(***************************************************************************)
(* Model of longest_sub.py: the two run scanners                          *)
(* (longest_contiguous_version1 / longest_contiguous_version2), the       *)
(* reducer all_longest, and the serial and process-pool drivers.          *)
(*                                                                         *)
(* A Python str / Bio.Seq.Seq is a TLA+ sequence of one-character strings. *)
(* A dict is a function whose DOMAIN is its key set; where the code's      *)
(* iteration order over a dict matters (d.items()), the dict is a sequence *)
(* of <<key, value>> pairs with distinct keys, in insertion order.         *)
(***************************************************************************)
EXTENDS Integers, Sequences, FiniteSets, TLC

\* ------------------------------------------------------------------ bounds
MaxLen == 3

\* ------------------------------------------------------------ characters
\* The ASCII characters the scan inputs are built from: lower- and upper-case
\* letters, the usual stop-codon and gap symbols, and a digit.
Letters == {"a", "A", "b"}
Alphabet == Letters \cup {"*", "-", "1"}

\* str.isalpha() on one character.
IsAlphaChar(c) == c \in Letters

\* str.lower() on one character.
LowerChar(c) == IF c = "A" THEN "a" ELSE c

\* seq.lower(): every character lowered.
Lower(s) == [i \in 1..Len(s) |-> LowerChar(s[i])]

\* s.replace(old, ""): every non-overlapping occurrence of old removed, scanning
\* from the left; replacing the empty string by the empty string leaves s as it is.
RECURSIVE Replace(_, _)
Replace(s, old) ==
    IF Len(old) = 0 \/ Len(s) < Len(old) THEN s
    ELSE IF SubSeq(s, 1, Len(old)) = old
         THEN Replace(SubSeq(s, Len(old) + 1, Len(s)), old)
         ELSE <<Head(s)>> \o Replace(Tail(s), old)

\* s.isalpha(): at least one character and every character alphabetic.
IsAlpha(s) == Len(s) > 0 /\ \A i \in 1..Len(s) : IsAlphaChar(s[i])

\* ------------------------------------------------------------ dict helpers
EmptyDict == [k \in {} |-> 0]

SetMax(S) == CHOOSE m \in S : \A x \in S : x <= m

\* Variant of Max2: the smaller of the two (min written for max).
Min2(a, b) == IF a <= b THEN a ELSE b

Max2(a, b) == IF a >= b THEN a ELSE b

\* defaultdict(int): d[k] on a missing key inserts k with int() = 0.
Touch(d, k) == [x \in (DOMAIN d) \cup {k} |-> IF x \in DOMAIN d THEN d[x] ELSE 0]

\* d[k] = v
Put(d, k, v) == [x \in (DOMAIN d) \cup {k} |-> IF x = k THEN v ELSE d[x]]

\* d.pop(k, None)
Pop(d, k) == [x \in (DOMAIN d) \ {k} |-> d[x]]

\* ------------------------------------------------------------ outcomes
\* What a call produces: a returned dict, or a raised ValueError named by
\* the check that raised it.
Return(m) == [tag |-> "return", map |-> m, err |-> "none"]
Raise(e) == [tag |-> "raise", map |-> EmptyDict, err |-> e]
NotCalled == [tag |-> "pending", map |-> EmptyDict, err |-> "none"]

\* --------------------------------------------- longest_contiguous_version2
\* np.r_[True, seq_arr[:-1] != seq_arr[1:]]
different_letter_arr(s) == [i \in 1..Len(s) |-> (i = 1) \/ (s[i - 1] # s[i])]

\* np.flatnonzero(different_letter_arr): the positions that start a run, ascending.
seq_start_indices_arr(s) ==
    SelectSeq([i \in 1..Len(s) |-> i], LAMBDA i : different_letter_arr(s)[i])

\* Variant of seq_lengths_arr: the sentinel one position short, so the last
\* run is measured one character too short.
seq_lengths_short(s) ==
    LET st == Append(seq_start_indices_arr(s), Len(s))
    IN  [j \in 1..(Len(st) - 1) |-> st[j + 1] - st[j]]

\* np.diff(np.r_[seq_start_indices_arr, len(seq_arr)]) (positions are 1-based
\* here, so the sentinel is Len(s) + 1).
seq_lengths_arr(s) ==
    LET st == Append(seq_start_indices_arr(s), Len(s) + 1)
    IN  [j \in 1..(Len(st) - 1) |-> st[j + 1] - st[j]]

\* np.max(seq_lengths_arr)
max_length(s) == SetMax({seq_lengths_arr(s)[j] : j \in 1..Len(seq_lengths_arr(s))})

\* Variant of letters: only the first run of maximal length is kept, so a
\* tie between characters is lost.
letters_first(s) ==
    LET js == {x \in 1..Len(seq_lengths_arr(s)) : seq_lengths_arr(s)[x] = max_length(s)}
    IN  {s[seq_start_indices_arr(s)[CHOOSE j \in js : \A x \in js : j <= x]]}

\* set(seq_arr[seq_start_indices_arr[seq_lengths_arr == max_length]])
letters(s) ==
    {s[seq_start_indices_arr(s)[j]] :
        j \in {x \in 1..Len(seq_lengths_arr(s)) : seq_lengths_arr(s)[x] = max_length(s)}}

\* The vectorised scan of a validated, non-empty string.
VectorScan(s) == [c \in letters(s) |-> max_length(s)]

\* str(seq.lower()) if not case_sensitive else str(seq)
Normalize2(seq, case_sensitive) == IF case_sensitive THEN seq ELSE Lower(seq)

\* The content check both versions share.
ContentOk(s, stop_codon, gap) == IsAlpha(Replace(Replace(s, stop_codon), gap))

\* Variant of longest_contiguous_version2: the stop_codon/gap check placed
\* before the empty-sequence check.
version2_config_first(seq, is_seq, stop_codon, gap, case_sensitive) ==
    IF ~is_seq THEN Raise("type")
    ELSE IF Len(stop_codon) > 1 \/ Len(gap) > 1 THEN Raise("config")
    ELSE IF Len(seq) = 0 THEN Return(EmptyDict)
    ELSE LET s == Normalize2(seq, case_sensitive)
         IN  IF ~ContentOk(s, stop_codon, gap) THEN Raise("input")
             ELSE Return(VectorScan(s))

\* Variant of longest_contiguous_version2: the stop_codon/gap check written
\* with "and", so one over-long symbol alone passes it.
version2_config_and(seq, is_seq, stop_codon, gap, case_sensitive) ==
    IF ~is_seq THEN Raise("type")
    ELSE IF Len(seq) = 0 THEN Return(EmptyDict)
    ELSE LET s == Normalize2(seq, case_sensitive)
         IN  IF Len(stop_codon) > 1 /\ Len(gap) > 1 THEN Raise("config")
             ELSE IF ~ContentOk(s, stop_codon, gap) THEN Raise("input")
             ELSE Return(VectorScan(s))

longest_contiguous_version2(seq, is_seq, stop_codon, gap, case_sensitive) ==
    IF ~is_seq THEN Raise("type")
    ELSE IF Len(seq) = 0 THEN Return(EmptyDict)
    ELSE LET s == Normalize2(seq, case_sensitive)
         IN  IF Len(stop_codon) > 1 \/ Len(gap) > 1 THEN Raise("config")
             ELSE IF ~ContentOk(s, stop_codon, gap) THEN Raise("input")
             ELSE Return(VectorScan(s))

\* assigning longest_contiguous as version 2
longest_contiguous(seq, is_seq, stop_codon, gap, case_sensitive) ==
    longest_contiguous_version2(seq, is_seq, stop_codon, gap, case_sensitive)

\* --------------------------------------------- longest_contiguous_version1
None == "None"

\* One iteration of "for letter in seq": st is the loop's state.
LoopBody(st, letter) ==
    IF letter = st.current_letter
    THEN [st EXCEPT !.current_count = @ + 1]
    ELSE LET touched == Touch(st.longest_counts, st.current_letter)
             counts == IF st.current_count > touched[st.current_letter]
                       THEN Put(touched, st.current_letter, st.current_count)
                       ELSE touched
         IN  [longest_counts |-> counts, current_letter |-> letter, current_count |-> 1]

RECURSIVE Loop(_, _, _)
Loop(s, i, st) == IF i > Len(s) THEN st ELSE Loop(s, i + 1, LoopBody(st, s[i]))

\* The linear scan of a validated, non-empty string.
LinearScan(s) ==
    LET st == Loop(s, 1, [longest_counts |-> EmptyDict,
                          current_letter |-> None, current_count |-> 0])
        touched == Touch(st.longest_counts, st.current_letter)
        last == IF st.current_count > touched[st.current_letter]
                THEN Put(touched, st.current_letter, st.current_count)
                ELSE touched
        popped == Pop(last, None)
    IN  IF DOMAIN popped # {}
        THEN LET max_count == SetMax({popped[k] : k \in DOMAIN popped})
             IN  [k \in {x \in DOMAIN popped : popped[x] = max_count} |-> popped[k]]
        ELSE popped

longest_contiguous_version1(seq, is_seq, stop_codon, gap, case_sensitive) ==
    IF ~is_seq THEN Raise("type")
    ELSE IF Len(seq) = 0 THEN Return(EmptyDict)
    ELSE LET s == Lower(seq)
         IN  IF Len(stop_codon) > 1 \/ Len(gap) > 1 THEN Raise("config")
             ELSE IF ~ContentOk(s, stop_codon, gap) THEN Raise("input")
             ELSE Return(LinearScan(s))

\* ------------------------------------------------------------- all_longest
\* Variant of FoldItem: the value is stored without taking the maximum.
FoldItemLast(acc, k, v) == Put(acc, k, v)

\* Variant of FoldItem: the accumulator is rebuilt with the folded key alone.
FoldItemFresh(acc, k, v) ==
    LET touched == Touch(acc, k)
    IN  [x \in {k} |-> Max2(touched[k], v)]

\* all_longest_dict[k] = max(all_longest_dict[k], v) on a defaultdict(int):
\* reading the missing key inserts it with 0, then the maximum is stored.
FoldItem(acc, k, v) ==
    LET touched == Touch(acc, k)
    IN  Put(touched, k, Max2(touched[k], v))

\* for k, v in d.items(): d is the dict's items in iteration order.
RECURSIVE FoldDict(_, _, _)
FoldDict(acc, d, i) ==
    IF i > Len(d) THEN acc ELSE FoldDict(FoldItem(acc, d[i][1], d[i][2]), d, i + 1)

\* for d in each_longest
RECURSIVE FoldAll(_, _, _)
FoldAll(acc, each, j) ==
    IF j > Len(each) THEN acc ELSE FoldAll(FoldDict(acc, each[j], 1), each, j + 1)

\* The whole function: each is a list of dicts, each given by its items.
all_longest(each) == FoldAll(EmptyDict, each, 1)

\* d.items() of a dict built from a set (the scan's result): its keys come in
\* an order the caller has no say in; one such order.
RECURSIVE Items(_)
Items(m) ==
    IF DOMAIN m = {} THEN <<>>
    ELSE LET k == CHOOSE x \in DOMAIN m : TRUE
         IN  <<<<k, m[k]>>>> \o Items(Pop(m, k))

\* ------------------------------------------------------------------ state
VARIABLES
    \* one call of the scanners
    seq,             \* the sequence argument of a scan
    is_seq,          \* isinstance(seq, Seq)
    stop_codon,      \* the stop_codon argument
    gap,             \* the gap argument
    case_sensitive,  \* the case_sensitive argument
    out1,            \* outcome of longest_contiguous_version1 on the arguments
    out2,            \* outcome of longest_contiguous (version 2) on them
    \* one call of all_longest, loop iteration by loop iteration
    each_longest,    \* the argument: a list of dicts (items in iteration order)
    fold_pc,         \* where the call is
    d_idx,           \* how many dicts "for d in each_longest" has taken
    kv_idx,          \* how many items "for k, v in d.items()" has taken
    all_longest_dict,\* the accumulator
    fold_result,     \* the returned dict
    \* the serial run followed by the parallel run, as in __main__
    sequences,       \* the list of sequences both runs are given
    cpu_count,       \* os.cpu_count(), also the pool's number of workers
    pc,              \* where the main process is
    longest_each_sequence, \* the serial run's list of scan results
    answer1,         \* outcome of run_large_test_serial
    CHUNKSIZE,       \* len(sequences) // os.cpu_count()
    futures,         \* one future per chunk, in submission order
    workers,         \* what each worker process is doing
    answer2          \* outcome of run_large_test_parallel

scan_vars == <<seq, is_seq, stop_codon, gap, case_sensitive, out1, out2>>
fold_vars == <<each_longest, fold_pc, d_idx, kv_idx, all_longest_dict, fold_result>>
run_vars == <<sequences, cpu_count, pc, longest_each_sequence, answer1,
              CHUNKSIZE, futures, workers, answer2>>
vars == <<scan_vars, fold_vars, run_vars>>

RECURSIVE SeqsUpTo(_, _)
SeqsUpTo(S, n) ==
    IF n = 0 THEN {<<>>}
    ELSE LET shorter == SeqsUpTo(S, n - 1)
         IN  shorter \cup {Append(s, c) : s \in shorter, c \in S}

\* The parts of the state a specification does not use stay as they are here.
ScanUnused ==
    /\ seq = <<>> /\ is_seq = TRUE /\ stop_codon = <<>> /\ gap = <<>>
    /\ case_sensitive = TRUE /\ out1 = NotCalled /\ out2 = NotCalled

FoldUnused ==
    /\ each_longest = <<>> /\ fold_pc = "unused" /\ d_idx = 0 /\ kv_idx = 0
    /\ all_longest_dict = EmptyDict /\ fold_result = EmptyDict

RunUnused ==
    /\ sequences = <<>> /\ cpu_count = 1 /\ pc = "unused"
    /\ longest_each_sequence = <<>> /\ answer1 = NotCalled /\ CHUNKSIZE = 0
    /\ futures = <<>> /\ workers = <<>> /\ answer2 = NotCalled

\* ------------------------------------------------- Spec: the two scanners
StopCodons == {<<>>, <<"*">>, <<"*", "*">>}
Gaps == {<<>>, <<"-">>, <<"-", "-">>}

Init ==
    /\ seq \in SeqsUpTo(Alphabet, MaxLen)
    /\ is_seq \in BOOLEAN
    /\ stop_codon \in StopCodons
    /\ gap \in Gaps
    /\ case_sensitive \in BOOLEAN
    /\ out1 = NotCalled
    /\ out2 = NotCalled
    /\ FoldUnused
    /\ RunUnused

CallVersion1 ==
    /\ out1.tag = "pending"
    /\ out1' = longest_contiguous_version1(seq, is_seq, stop_codon, gap, case_sensitive)
    /\ UNCHANGED <<seq, is_seq, stop_codon, gap, case_sensitive, out2>>
    /\ UNCHANGED <<fold_vars, run_vars>>

CallLongestContiguous ==
    /\ out2.tag = "pending"
    /\ out2' = longest_contiguous(seq, is_seq, stop_codon, gap, case_sensitive)
    /\ UNCHANGED <<seq, is_seq, stop_codon, gap, case_sensitive, out1>>
    /\ UNCHANGED <<fold_vars, run_vars>>

Next == CallVersion1 \/ CallLongestContiguous

Spec == Init /\ [][Next]_vars

\* ------------------------------------------- SpecFold: all_longest, stepwise
MaxDicts == 2
MaxVal == 2

Keys == {"a", "b"}
Values == 1..MaxVal

\* The dicts over Keys, as their items in insertion order.
Dicts ==
    {<<>>}
    \cup {<<<<k, v>>>> : k \in Keys, v \in Values}
    \cup {<<<<k1, v1>>, <<k2, v2>>>> :
            <<k1, k2>> \in {p \in Keys \X Keys : p[1] # p[2]},
            <<v1, v2>> \in Values \X Values}

InitFold ==
    /\ each_longest \in SeqsUpTo(Dicts, MaxDicts)
    /\ fold_pc = "call"
    /\ d_idx = 0
    /\ kv_idx = 0
    /\ all_longest_dict = EmptyDict
    /\ fold_result = EmptyDict
    /\ ScanUnused
    /\ RunUnused

\* all_longest_dict = defaultdict(int)
FoldEnter ==
    /\ fold_pc = "call"
    /\ all_longest_dict' = EmptyDict
    /\ d_idx' = 0
    /\ fold_pc' = "for_d"
    /\ UNCHANGED <<each_longest, kv_idx, fold_result, scan_vars, run_vars>>

\* for d in each_longest: the next dict
ForDNext ==
    /\ fold_pc = "for_d"
    /\ d_idx < Len(each_longest)
    /\ d_idx' = d_idx + 1
    /\ kv_idx' = 0
    /\ fold_pc' = "for_kv"
    /\ UNCHANGED <<each_longest, all_longest_dict, fold_result, scan_vars, run_vars>>

\* for d in each_longest: exhausted
ForDExit ==
    /\ fold_pc = "for_d"
    /\ d_idx = Len(each_longest)
    /\ fold_pc' = "return"
    /\ UNCHANGED <<each_longest, d_idx, kv_idx, all_longest_dict, fold_result,
                   scan_vars, run_vars>>

\* for k, v in d.items(): the loop body on the next item
ForKVBody ==
    /\ fold_pc = "for_kv"
    /\ kv_idx < Len(each_longest[d_idx])
    /\ LET kv == each_longest[d_idx][kv_idx + 1]
       IN  all_longest_dict' = FoldItem(all_longest_dict, kv[1], kv[2])
    /\ kv_idx' = kv_idx + 1
    /\ UNCHANGED <<each_longest, fold_pc, d_idx, fold_result, scan_vars, run_vars>>

\* for k, v in d.items(): exhausted
ForKVExit ==
    /\ fold_pc = "for_kv"
    /\ kv_idx = Len(each_longest[d_idx])
    /\ fold_pc' = "for_d"
    /\ UNCHANGED <<each_longest, d_idx, kv_idx, all_longest_dict, fold_result,
                   scan_vars, run_vars>>

\* return dict(all_longest_dict)
FoldReturn ==
    /\ fold_pc = "return"
    /\ fold_result' = all_longest_dict
    /\ fold_pc' = "done"
    /\ UNCHANGED <<each_longest, d_idx, kv_idx, all_longest_dict, scan_vars, run_vars>>

NextFold ==
    FoldEnter \/ ForDNext \/ ForDExit \/ ForKVBody \/ ForKVExit \/ FoldReturn

SpecFold == InitFold /\ [][NextFold]_vars

\* ------------------- SpecRun: run_large_test_serial, run_large_test_parallel
MaxSeqs == 3
MaxCpu == 2

\* The sequences the runs are given: empty, one run, a tie, two runs of
\* different lengths, and one whose content the scan rejects.
TestSequences == {<<>>, <<"a">>, <<"a", "b">>, <<"b", "b", "a">>, <<"1">>}

\* longest_contiguous(seq): the drivers pass a Seq and no other argument.
ScanDefault(s) == longest_contiguous(s, TRUE, <<>>, <<>>, TRUE)

\* The scan results as all_longest iterates them.
ItemsOfEach(results) == [i \in 1..Len(results) |-> Items(results[i])]

\* The chunks pool.map cuts the sequences into: chunksize items each, the
\* last one shorter.
NumChunks(n, chunksize) == (n + chunksize - 1) \div chunksize
ChunkOf(c) ==
    SubSeq(sequences, (c - 1) * CHUNKSIZE + 1,
           IF c * CHUNKSIZE < Len(sequences) THEN c * CHUNKSIZE ELSE Len(sequences))

Idle == [chunk |-> 0, results |-> <<>>]
Pending == [state |-> "pending", results |-> <<>>, exc |-> "none"]

RECURSIVE Chain(_, _)
\* The results of chunks c.. in submission order, as the result iterator yields them.
Chain(fs, c) == IF c > Len(fs) THEN <<>> ELSE fs[c].results \o Chain(fs, c + 1)

InitRun ==
    /\ sequences \in SeqsUpTo(TestSequences, MaxSeqs)
    /\ cpu_count \in 1..MaxCpu
    /\ pc = "serial_loop"
    /\ longest_each_sequence = <<>>
    /\ answer1 = NotCalled
    /\ CHUNKSIZE = 0
    /\ futures = <<>>
    /\ workers = <<>>
    /\ answer2 = NotCalled
    /\ ScanUnused
    /\ FoldUnused

\* for seq in sequences: longest_each_sequence.append(longest_contiguous(seq));
\* a scan that raises ends the serial run with that error.
SerialScan ==
    /\ pc = "serial_loop"
    /\ Len(longest_each_sequence) < Len(sequences)
    /\ LET out == ScanDefault(sequences[Len(longest_each_sequence) + 1])
       IN  IF out.tag = "raise"
           THEN /\ answer1' = out
                /\ pc' = "parallel_submit"
                /\ UNCHANGED longest_each_sequence
           ELSE /\ longest_each_sequence' = Append(longest_each_sequence, out.map)
                /\ UNCHANGED <<answer1, pc>>
    /\ UNCHANGED <<sequences, cpu_count, CHUNKSIZE, futures, workers, answer2,
                   scan_vars, fold_vars>>

\* answer = all_longest(longest_each_sequence); return answer
SerialReduce ==
    /\ pc = "serial_loop"
    /\ Len(longest_each_sequence) = Len(sequences)
    /\ answer1' = Return(all_longest(ItemsOfEach(longest_each_sequence)))
    /\ pc' = "parallel_submit"
    /\ UNCHANGED <<sequences, cpu_count, longest_each_sequence, CHUNKSIZE, futures,
                   workers, answer2, scan_vars, fold_vars>>

\* CHUNKSIZE = len(sequences) // os.cpu_count(); pool.map(..., chunksize=CHUNKSIZE):
\* map refuses a chunksize below 1 with a ValueError, else submits one future
\* per chunk to the pool's cpu_count workers.
ParallelSubmit ==
    /\ pc = "parallel_submit"
    /\ CHUNKSIZE' = Len(sequences) \div cpu_count
    /\ IF CHUNKSIZE' < 1
       THEN /\ answer2' = Raise("chunksize")
            /\ pc' = "done"
            /\ UNCHANGED <<futures, workers>>
       ELSE /\ futures' = [c \in 1..NumChunks(Len(sequences), CHUNKSIZE') |-> Pending]
            /\ workers' = [w \in 1..cpu_count |-> Idle]
            /\ pc' = "parallel_wait"
            /\ UNCHANGED answer2
    /\ UNCHANGED <<sequences, cpu_count, longest_each_sequence, answer1,
                   scan_vars, fold_vars>>

\* An idle worker takes the next chunk off the call queue.
WorkerTake(w) ==
    /\ pc = "parallel_wait"
    /\ workers[w].chunk = 0
    /\ \E c \in 1..Len(futures) :
        /\ futures[c].state = "pending"
        /\ \A b \in 1..(c - 1) : futures[b].state # "pending"
        /\ futures' = [futures EXCEPT ![c].state = "running"]
        /\ workers' = [workers EXCEPT ![w] = [chunk |-> c, results |-> <<>>]]
    /\ UNCHANGED <<sequences, cpu_count, pc, longest_each_sequence, answer1,
                   CHUNKSIZE, answer2, scan_vars, fold_vars>>

\* The worker scans the next sequence of its chunk; a scan that raises
\* becomes the exception of the chunk's future.
WorkerScan(w) ==
    /\ pc = "parallel_wait"
    /\ workers[w].chunk # 0
    /\ Len(workers[w].results) < Len(ChunkOf(workers[w].chunk))
    /\ LET c == workers[w].chunk
           out == ScanDefault(ChunkOf(c)[Len(workers[w].results) + 1])
       IN  IF out.tag = "raise"
           THEN /\ futures' = [futures EXCEPT ![c] =
                                [state |-> "finished", results |-> <<>>, exc |-> out.err]]
                /\ workers' = [workers EXCEPT ![w] = Idle]
           ELSE /\ workers' = [workers EXCEPT ![w].results = Append(@, out.map)]
                /\ UNCHANGED futures
    /\ UNCHANGED <<sequences, cpu_count, pc, longest_each_sequence, answer1,
                   CHUNKSIZE, answer2, scan_vars, fold_vars>>

\* The worker has scanned its whole chunk and sends the list of results back.
WorkerReturn(w) ==
    /\ pc = "parallel_wait"
    /\ workers[w].chunk # 0
    /\ Len(workers[w].results) = Len(ChunkOf(workers[w].chunk))
    /\ futures' = [futures EXCEPT ![workers[w].chunk] =
                    [state |-> "finished", results |-> workers[w].results, exc |-> "none"]]
    /\ workers' = [workers EXCEPT ![w] = Idle]
    /\ UNCHANGED <<sequences, cpu_count, pc, longest_each_sequence, answer1,
                   CHUNKSIZE, answer2, scan_vars, fold_vars>>

\* Leaving the with block: the pool shuts down, waiting for every future.
PoolShutdown ==
    /\ pc = "parallel_wait"
    /\ \A c \in 1..Len(futures) : futures[c].state = "finished"
    /\ pc' = "parallel_reduce"
    /\ UNCHANGED <<sequences, cpu_count, longest_each_sequence, answer1,
                   CHUNKSIZE, futures, workers, answer2, scan_vars, fold_vars>>

\* return all_longest(each_longest): the fold draws the results chunk by chunk
\* in submission order; reaching a future that holds an exception raises it.
ParallelReduce ==
    /\ pc = "parallel_reduce"
    /\ LET failed == {c \in 1..Len(futures) : futures[c].exc # "none"}
       IN  IF failed # {}
           THEN answer2' = Raise(futures[CHOOSE c \in failed : \A b \in failed : c <= b].exc)
           ELSE answer2' = Return(all_longest(ItemsOfEach(Chain(futures, 1))))
    /\ pc' = "done"
    /\ UNCHANGED <<sequences, cpu_count, longest_each_sequence, answer1,
                   CHUNKSIZE, futures, workers, scan_vars, fold_vars>>

NextRun ==
    \/ SerialScan
    \/ SerialReduce
    \/ ParallelSubmit
    \/ \E w \in 1..cpu_count : WorkerTake(w)
    \/ \E w \in 1..cpu_count : WorkerScan(w)
    \/ \E w \in 1..cpu_count : WorkerReturn(w)
    \/ PoolShutdown
    \/ ParallelReduce

SpecRun == InitRun /\ [][NextRun]_vars

\* ================================================================== claims
\* Reference definitions, by counting: a maximal run of n equal characters
\* starting at position i of s.
RunAt(s, i, n) ==
    /\ i >= 1 /\ n >= 1 /\ i + n - 1 <= Len(s)
    /\ \A j \in i..(i + n - 1) : s[j] = s[i]
    /\ (i = 1 \/ s[i - 1] # s[i])
    /\ (i + n - 1 = Len(s) \/ s[i + n] # s[i])

CharsOf(s) == {s[i] : i \in 1..Len(s)}

\* The lengths of the maximal runs of character c in s.
RunLengths(s, c) ==
    {n \in 1..Len(s) : \E i \in 1..Len(s) : s[i] = c /\ RunAt(s, i, n)}

\* The length of the longest maximal run in a non-empty s.
LongestRun(s) == SetMax(UNION {RunLengths(s, c) : c \in CharsOf(s)})

\* {c -> M} for exactly the characters with a run of length M.
ExpectedScan(s) ==
    [c \in {x \in CharsOf(s) : LongestRun(s) \in RunLengths(s, x)} |-> LongestRun(s)]

\* s lowercased, written out for the characters of Alphabet.
Lowercased(s) ==
    [i \in 1..Len(s) |-> CASE s[i] = "A" -> "a" [] OTHER -> s[i]]

IsLetter(c) == c \in {"a", "b", "A"}

\* A character that is neither a letter nor a declared symbol.
Foreign(c) == ~IsLetter(c) /\ <<c>> # stop_codon /\ <<c>> # gap

ValidConfig == Len(stop_codon) <= 1 /\ Len(gap) <= 1

Scanned == out2.tag # "pending"

C3_EmptyYieldsEmpty ==
    (Scanned /\ is_seq /\ Len(seq) = 0) => out2 = Return(EmptyDict)

\* An empty sequence scanned with over-long stop_codon and gap.
C3_Witness ==
    /\ Scanned /\ is_seq /\ Len(seq) = 0 /\ Len(stop_codon) > 1 /\ Len(gap) > 1
    /\ out2.tag = "return"

\* C4 as stated: with stop_codon or gap longer than one character the scan
\* raises for every sequence value, whatever its length.
C4_ConfigAlwaysRaises ==
    (Scanned /\ ~ValidConfig) => out2.tag = "raise"

\* C4 as amended: with stop_codon or gap longer than one character the scan
\* raises for every value but the empty sequence, and for a non-empty sequence
\* the error is the configuration error, whatever the sequence contains.
C4_ConfigRaisesUnlessEmpty ==
    (Scanned /\ ~ValidConfig /\ ~(is_seq /\ Len(seq) = 0)) =>
        /\ out2.tag = "raise"
        /\ is_seq => out2.err = "config"

\* The configuration error raised for a sequence whose content is invalid too.
C4_Witness ==
    /\ Scanned /\ is_seq /\ Len(gap) > 1 /\ Len(stop_codon) <= 1
    /\ "1" \in CharsOf(seq) /\ out2.err = "config"

\* C5: for a non-empty sequence and a valid configuration the scan raises the
\* content error if and only if some character is neither a letter nor the
\* declared stop_codon nor the declared gap.
C5_InvalidInputIffForeign ==
    (Scanned /\ is_seq /\ Len(seq) > 0 /\ ValidConfig) =>
        ((out2.tag = "raise" /\ out2.err = "input") <=> (\E c \in CharsOf(seq) : Foreign(c)))

\* C6: the two versions agree on every input: both return the same mapping
\* or both raise.
C6_VersionsAgree ==
    (out1.tag # "pending" /\ out2.tag # "pending") =>
        (out1.tag = out2.tag /\ out1.map = out2.map)

\* ---- all_longest
KeysOfDict(d) == {d[i][1] : i \in 1..Len(d)}
AllKeys(each) == UNION {KeysOfDict(each[j]) : j \in 1..Len(each)}
ValuesFor(each, k) ==
    {each[j][i][2] : <<j, i>> \in {p \in (1..Len(each)) \X (1..2) :
                                    p[2] <= Len(each[p[1]]) /\ each[p[1]][p[2]][1] = k}}

\* C2: the returned mapping has exactly the union of the input key sets as
\* keys, each with the maximum of the values the inputs give it; no inputs, or
\* only empty ones, give the empty mapping; no value is 0.
C2_AllLongestIsMaxPerKey ==
    fold_pc = "done" =>
        /\ DOMAIN fold_result = AllKeys(each_longest)
        /\ \A k \in DOMAIN fold_result :
            /\ fold_result[k] = SetMax(ValuesFor(each_longest, k))
            /\ fold_result[k] # 0

\* A finished fold of a list in which one key has an earlier value larger than
\* a later one and another key appears in one dict only.
C2_Witness ==
    /\ fold_pc = "done"
    /\ Cardinality(DOMAIN fold_result) = 2
    /\ \E k \in Keys : \E j \in 1..Len(each_longest) : k \notin KeysOfDict(each_longest[j])
    /\ \E i, j \in 1..Len(each_longest) : \E k \in Keys :
        /\ i < j
        /\ k \in KeysOfDict(each_longest[i]) /\ k \in KeysOfDict(each_longest[j])
        /\ SetMax(ValuesFor(<<each_longest[i]>>, k)) > SetMax(ValuesFor(<<each_longest[j]>>, k))
        /\ fold_result[k] = SetMax(ValuesFor(<<each_longest[i]>>, k))

Permuted(each, p) == [i \in 1..Len(each) |-> each[p[i]]]

\* C7: folding any permutation of the list returns what folding the list returned.
C7_OrderIndependent ==
    fold_pc = "done" =>
        \A p \in Permutations(1..Len(each_longest)) :
            all_longest(Permuted(each_longest, p)) = fold_result

\* A finished fold of several dicts, all different, two of them giving the same
\* key different values.
C7_Witness ==
    /\ fold_pc = "done" /\ Len(each_longest) >= 2
    /\ \A i, j \in 1..Len(each_longest) : i # j => each_longest[i] # each_longest[j]
    /\ \E i, j \in 1..Len(each_longest) : \E k \in Keys :
        /\ k \in KeysOfDict(each_longest[i]) /\ k \in KeysOfDict(each_longest[j])
        /\ ValuesFor(<<each_longest[i]>>, k) # ValuesFor(<<each_longest[j]>>, k)

\* The key the next step of the fold stores, if the next step is a loop body.
FoldedKey ==
    IF fold_pc = "for_kv" /\ kv_idx < Len(each_longest[d_idx])
    THEN each_longest[d_idx][kv_idx + 1][1]
    ELSE None

\* C9: no step of the fold lowers the accumulator's value for a key or removes
\* a key, and a step changes no key but the one it folds.
C9_FoldMonotone ==
    [][/\ \A k \in DOMAIN all_longest_dict :
            /\ k \in DOMAIN all_longest_dict'
            /\ all_longest_dict'[k] >= all_longest_dict[k]
       /\ \A k \in DOMAIN all_longest_dict' :
            k # FoldedKey =>
                /\ k \in DOMAIN all_longest_dict
                /\ all_longest_dict'[k] = all_longest_dict[k]]_vars

\* The fold about to store a value smaller than the one it holds for that key,
\* with another key in the accumulator.
C9_Witness ==
    /\ fold_pc = "for_kv" /\ kv_idx < Len(each_longest[d_idx])
    /\ FoldedKey \in DOMAIN all_longest_dict
    /\ each_longest[d_idx][kv_idx + 1][2] < all_longest_dict[FoldedKey]
    /\ Cardinality(DOMAIN all_longest_dict) >= 2

\* ---- the runs
\* What the drivers' scan (no stop_codon, no gap) accepts: letters only, or nothing.
AllValid(seqs) ==
    \A i \in 1..Len(seqs) : \A c \in CharsOf(seqs[i]) : IsLetter(c)

\* C8: for every list of valid sequences the parallel run returns a result,
\* and it is the serial run's.
C8_ParallelEqualsSerial ==
    (pc = "done" /\ AllValid(sequences)) =>
        (answer2.tag = "return" /\ answer2 = answer1)

\* The lengths of the runs of c over all the sequences.
RunLengthsOver(seqs, c) == UNION {RunLengths(seqs[i], c) : i \in 1..Len(seqs)}

\* C10: scanning then folding a list of valid sequences, one of them non-empty:
\* every value of the aggregate is the length of a run of its key in some
\* sequence (so at most that character's longest run), and the largest value
\* is the longest run of any character in any sequence.
C10_EndToEnd ==
    (pc \notin {"unused", "serial_loop"} /\ AllValid(sequences)
        /\ \E i \in 1..Len(sequences) : Len(sequences[i]) > 0) =>
        /\ answer1.tag = "return"
        /\ \A k \in DOMAIN answer1.map :
            /\ answer1.map[k] \in RunLengthsOver(sequences, k)
            /\ answer1.map[k] <= SetMax(RunLengthsOver(sequences, k))
        /\ SetMax({answer1.map[k] : k \in DOMAIN answer1.map})
            = SetMax(UNION {RunLengthsOver(sequences, c) : c \in Letters})

\* A serial run that returned two characters with different lengths, from a
\* list with an empty sequence in it.
C10_Witness ==
    /\ answer1.tag = "return"
    /\ \E i \in 1..Len(sequences) : sequences[i] = <<>>
    /\ DOMAIN answer1.map = {"a", "b"}
    /\ answer1.map["a"] # answer1.map["b"]
====
